---- MODULE Spec2Model ----
(***************************************************************************)
(* Model of polyglot-task-queue/worker-python/main.py: the task-queue      *)
(* worker.  main() connects to the broker, sets the prefetch limit,        *)
(* declares the three durable queues and starts consuming; on_message      *)
(* handles one delivery inside `async with message.process()`; the status  *)
(* reporter publish_task_status swallows its own failures; process_task    *)
(* turns a payload into an analysis or an error descriptor.                *)
(*                                                                         *)
(* The broker (RabbitMQ through aio_pika) is the environment: it keeps the *)
(* ready messages of the tasks queue, hands a message to a consumer while  *)
(* the consumer's channel has credit (prefetch), and records what each     *)
(* publish put on the results and task_status queues.  A publish call may  *)
(* fail; every await of the handler is a scheduling point.  The publish    *)
(* calls made for a delivery are kept, in order, with that delivery.       *)
(***************************************************************************)
EXTENDS Integers, Sequences, FiniteSets, TLC

\* ------------------------------------------------------------------ bounds
MaxTasks == 2          \* messages the producers put on the tasks queue

Workers == {"w1", "w2"}

\* --------------------------------------------------------- program constants
TASKS_QUEUE == "tasks"
RESULTS_QUEUE == "results"
TASK_STATUS_QUEUE == "task_status"
WORKER_NAME == "python-worker"

PrefetchCountWholeQueue == MaxTasks
PrefetchCount == 1

\* ------------------------------------------------------------- JSON values
\* A decoded JSON value is [t, s]: t its type, s its characters.
JStr(s) == [t |-> "str", s |-> s]
JNum(s) == [t |-> "num", s |-> s]
JNull == [t |-> "null", s |-> <<>>]
Absent == [t |-> "absent", s |-> <<>>]      \* key not in the object
Unbound == [t |-> "unbound", s |-> <<>>]    \* local variable never assigned

ANALYZE == JStr(<<"analyze">>)
CsvText == JStr(<<"x", "\n", "y", "\n", "\n", "z">>)

\* A message body: text that is not JSON, JSON that is not an object, or an
\* object with (some of) the keys taskId, type, data.
NoFields == [taskId |-> Absent, type |-> Absent, data |-> Absent]
Invalid == [json |-> "invalid", fields |-> NoFields]
Array == [json |-> "array", fields |-> NoFields]
Task(id, type, data) ==
    [json |-> "object", fields |-> [taskId |-> id, type |-> type, data |-> data]]

NoHeaders == "none"

\* The messages producers send: the two malformed envelopes, an analyze task
\* with a tabular payload, an analyze task without id whose payload is not a
\* string, and a task of another type; with and without trace headers.
Messages ==
    { [body |-> Invalid, headers |-> NoHeaders],
      [body |-> Array, headers |-> "trace-a"],
      [body |-> Task(JStr(<<"t1">>), ANALYZE, CsvText), headers |-> "trace-a"],
      [body |-> Task(Absent, ANALYZE, JNum(<<"5">>)), headers |-> NoHeaders],
      [body |-> Task(JStr(<<"t1">>), JStr(<<"email">>), Absent), headers |-> NoHeaders] }

VARIABLES
    wpc,        \* wpc[w]: where main() of worker w is
    exitCode,   \* exitCode[w]: process exit status, -1 while running
    prefetch,   \* prefetch[w]: the channel's prefetch limit, 0 is unlimited
    declared,   \* queues declared at the broker
    tasksQ,     \* ready messages of the tasks queue
    enqueued,   \* messages put on the tasks queue so far
    h           \* h[tag]: the on_message invocation for delivery tag, with
                \* out, the publish calls it has made, in order

vars == <<wpc, exitCode, prefetch, declared, tasksQ, enqueued, h>>

Init ==
    /\ wpc = [w \in Workers |-> "start"]
    /\ exitCode = [w \in Workers |-> -1]
    /\ prefetch = [w \in Workers |-> 0]
    /\ declared = {}
    /\ tasksQ = <<>>
    /\ enqueued = 0
    /\ h = <<>>

Tags == DOMAIN h

\* ----------------------------------------------------------------- main()
\* __main__: an exception out of asyncio.run(main()) and sys.exit(1) of
\* main() both end the process with status 1.
Fatal(w) ==
    /\ wpc' = [wpc EXCEPT ![w] = "exited"]
    /\ exitCode' = [exitCode EXCEPT ![w] = 1]

\* rabbitmq_url = os.environ.get('MESSAGING_URI'); exit when not set.
ReadUri(w) ==
    /\ wpc[w] = "start"
    /\ \E set \in BOOLEAN :
         IF set THEN wpc' = [wpc EXCEPT ![w] = "connect"] /\ UNCHANGED exitCode
         ELSE Fatal(w)
    /\ UNCHANGED <<prefetch, declared, tasksQ, enqueued, h>>

\* connection = await connect_robust(rabbitmq_url)
Connect(w) ==
    /\ wpc[w] = "connect"
    /\ \E ok \in BOOLEAN :
         IF ok THEN wpc' = [wpc EXCEPT ![w] = "channel"] /\ UNCHANGED exitCode
         ELSE Fatal(w)
    /\ UNCHANGED <<prefetch, declared, tasksQ, enqueued, h>>

\* channel = await connection.channel()
OpenChannel(w) ==
    /\ wpc[w] = "channel"
    /\ \E ok \in BOOLEAN :
         IF ok THEN wpc' = [wpc EXCEPT ![w] = "qos"] /\ UNCHANGED exitCode
         ELSE Fatal(w)
    /\ UNCHANGED <<prefetch, declared, tasksQ, enqueued, h>>

\* await channel.set_qos(prefetch_count=1)
SetQos(w) ==
    /\ wpc[w] = "qos"
    /\ \E ok \in BOOLEAN :
         IF ok THEN /\ wpc' = [wpc EXCEPT ![w] = "declare_tasks"]
                    /\ prefetch' = [prefetch EXCEPT ![w] = PrefetchCount]
                    /\ UNCHANGED exitCode
         ELSE Fatal(w) /\ UNCHANGED prefetch
    /\ UNCHANGED <<declared, tasksQ, enqueued, h>>

DeclareQueueIgnoresRejection(w, at, name, next) ==
    /\ wpc[w] = at
    /\ \E ok \in BOOLEAN :
         /\ wpc' = [wpc EXCEPT ![w] = next]
         /\ declared' = IF ok THEN declared \cup {name} ELSE declared
         /\ UNCHANGED exitCode
    /\ UNCHANGED <<prefetch, tasksQ, enqueued, h>>

\* await channel.declare_queue(name, durable=True): the broker accepts the
\* declaration (idempotent) or rejects it, which is fatal.
DeclareQueue(w, at, name, next) ==
    /\ wpc[w] = at
    /\ \E ok \in BOOLEAN :
         IF ok THEN /\ wpc' = [wpc EXCEPT ![w] = next]
                    /\ declared' = declared \cup {name}
                    /\ UNCHANGED exitCode
         ELSE Fatal(w) /\ UNCHANGED declared
    /\ UNCHANGED <<prefetch, tasksQ, enqueued, h>>

DeclareTasks(w) == DeclareQueue(w, "declare_tasks", TASKS_QUEUE, "declare_results")
DeclareResults(w) == DeclareQueue(w, "declare_results", RESULTS_QUEUE, "declare_status")
DeclareStatus(w) == DeclareQueue(w, "declare_status", TASK_STATUS_QUEUE, "consume")

\* await tasks_queue.consume(lambda msg: on_message(msg, channel)), then
\* await asyncio.Future(): the worker runs until it is stopped.
Consume(w) ==
    /\ wpc[w] = "consume"
    /\ \E ok \in BOOLEAN :
         IF ok THEN wpc' = [wpc EXCEPT ![w] = "consuming"] /\ UNCHANGED exitCode
         ELSE Fatal(w)
    /\ UNCHANGED <<prefetch, declared, tasksQ, enqueued, h>>

\* ------------------------------------------------------------ process_task
Whitespace == {" ", "\n", "\t"}

RECURSIVE LStrip(_)
LStrip(s) == IF s # <<>> /\ Head(s) \in Whitespace THEN LStrip(Tail(s)) ELSE s

RECURSIVE RStrip(_)
RStrip(s) ==
    IF s # <<>> /\ s[Len(s)] \in Whitespace THEN RStrip(SubSeq(s, 1, Len(s) - 1)) ELSE s

\* str.strip()
Strip(s) == RStrip(LStrip(s))

\* str.split('\n'): the pieces between newlines, empty pieces included.
RECURSIVE SplitLines(_, _)
SplitLines(s, cur) ==
    IF s = <<>> THEN <<cur>>
    ELSE IF Head(s) = "\n" THEN <<cur>> \o SplitLines(Tail(s), <<>>)
    ELSE SplitLines(Tail(s), Append(cur, Head(s)))

RECURSIVE SelectNonEmpty(_)
SelectNonEmpty(ls) ==
    IF ls = <<>> THEN <<>>
    ELSE IF Head(ls) = <<>> THEN SelectNonEmpty(Tail(ls))
    ELSE <<Head(ls)>> \o SelectNonEmpty(Tail(ls))

StripEach(ls) == [i \in 1..Len(ls) |-> Strip(ls[i])]

DataFrame(cols, rows) ==
    [t |-> "analysis", error_type |-> "", columns |-> cols, rows |-> rows]
Failed(kind) == [t |-> "error", error_type |-> kind, columns |-> <<>>, rows |-> <<>>]

\* pd.read_csv(StringIO(data_str)) for text without delimiters or quotes:
\* blank lines are skipped, the first remaining line is the header of the
\* single column and the others are its rows; no line at all is an
\* EmptyDataError, and StringIO of a number is a TypeError.
ReadCsv(data) ==
    IF data.t = "num" THEN Failed("TypeError")
    ELSE LET ls == SelectNonEmpty(SplitLines(data.s, <<>>))
         IN IF ls = <<>> THEN Failed("EmptyDataError")
            ELSE DataFrame(<<Head(ls)>>, Tail(ls))

\* pd.DataFrame(json.loads(data_str)): a number or None is a TypeError, text
\* that is not JSON a JSONDecodeError.  The text that reaches this tier has
\* no line that read_csv could take as a header, so it is not JSON.
JsonFrame(data) ==
    IF data.t # "str" THEN Failed("TypeError")
    ELSE Failed("JSONDecodeError")

\* lines = [line.strip() for line in data_str.strip().split('\n') if line.strip()]
\* df = pd.DataFrame({'values': lines}); a non-string has no strip().
LinesFrame(data) ==
    IF data.t # "str" THEN Failed("AttributeError")
    ELSE DataFrame(<<<<"v", "a", "l", "u", "e", "s">>>>,
                   SelectNonEmpty(StripEach(SplitLines(Strip(data.s), <<>>))))

\* dict.get(key, default)
DictGet(d, key, default) == IF d[key] = Absent THEN default ELSE d[key]

process_taskOncePerPayload(task_data) ==
    LET data_str == DictGet(task_data, "data", JStr(<<>>))
        csv == ReadCsv(data_str)
        js == JsonFrame(data_str)
    IN IF \E t \in DOMAIN h : h[t].result.t # "none" /\ h[t].msg.body.fields = task_data
         THEN Failed("DuplicateTask")
       ELSE IF csv.t = "analysis" THEN csv
       ELSE IF js.t = "analysis" THEN js
       ELSE LinesFrame(data_str)

\* process_task(task_data): the three tiers in order; an exception of the
\* last tier reaches the outer handler, which returns the error descriptor.
process_task(task_data) ==
    LET data_str == DictGet(task_data, "data", JStr(<<>>))
        csv == ReadCsv(data_str)
        js == JsonFrame(data_str)
    IN IF csv.t = "analysis" THEN csv
       ELSE IF js.t = "analysis" THEN js
       ELSE LinesFrame(data_str)

\* ------------------------------------------------------------- the broker
\* A producer puts a persistent message on the (declared) tasks queue.
Enqueue ==
    /\ TASKS_QUEUE \in declared
    /\ enqueued < MaxTasks
    /\ \E m \in Messages :
         tasksQ' = Append(tasksQ, [mid |-> enqueued + 1, body |-> m.body,
                                   headers |-> m.headers])
    /\ enqueued' = enqueued + 1
    /\ UNCHANGED <<wpc, exitCode, prefetch, declared, h>>

\* Deliveries of consumer w the broker has not seen settled.
Unacked(w) == {t \in Tags : h[t].w = w /\ h[t].outcome = "none"}

\* basic.qos credit: a prefetch count of 0 means no limit.
HasCredit(w) ==
    prefetch[w] = 0 \/ Cardinality(Unacked(w)) < prefetch[w]

NoResult == [t |-> "none", error_type |-> "", columns |-> <<>>, rows |-> <<>>]

NoAckAutomatic == TRUE

\* tasks_queue.consume(callback) leaves no_ack at its default: the broker
\* waits for the consumer to settle each delivery.
NoAck == FALSE

\* The broker hands the head of the tasks queue to consumer w; aio_pika
\* starts on_message(msg, channel) for it.
Deliver(w) ==
    /\ wpc[w] = "consuming"
    /\ tasksQ # <<>>
    /\ HasCredit(w)
    /\ h' = Append(h, [w |-> w, msg |-> Head(tasksQ), pc |-> "received",
                       trace |-> <<"", 0>>, task_id |-> Unbound, task_type |-> Unbound,
                       result |-> NoResult, exc |-> "", escaped |-> FALSE,
                       out |-> <<>>, outcome |-> IF NoAck THEN "ack" ELSE "none"])
    /\ tasksQ' = Tail(tasksQ)
    /\ UNCHANGED <<wpc, exitCode, prefetch, declared, enqueued>>

\* ------------------------------------------------------ publish_task_status
\* The message a publish call hands to the broker; ok tells whether the
\* broker took it.  Status events have no result, results no status.
StatusMessage(t, status, extra, ok) ==
    [queue |-> TASK_STATUS_QUEUE, taskId |-> h[t].task_id, status |-> status,
     worker |-> WORKER_NAME, result |-> NoResult, extra |-> extra,
     trace |-> h[t].trace, ok |-> ok]

ResultMessageNoId(t, ok) ==
    [queue |-> RESULTS_QUEUE, taskId |-> JNull, status |-> "",
     worker |-> WORKER_NAME, result |-> h[t].result, extra |-> "",
     trace |-> h[t].trace, ok |-> ok]

ResultMessage(t, ok) ==
    [queue |-> RESULTS_QUEUE, taskId |-> h[t].task_id, status |-> "",
     worker |-> WORKER_NAME, result |-> h[t].result, extra |-> "",
     trace |-> h[t].trace, ok |-> ok]

StatusReporterReraises(ok) == IF ok THEN "returned" ELSE "raised"

\* How publish_task_status ends: `except Exception` logs and swallows a
\* failed publish, so the call returns either way.
StatusReporterOutcome(ok) == IF ok THEN "returned" ELSE "returned"

\* channel.default_exchange.publish(...) while handling delivery t: the
\* call is recorded with its outcome; hh is the handler state that follows.
Publish(t, m, hh) == [hh EXCEPT ![t].out = Append(h[t].out, m)]

\* ---------------------------------------------------------------- on_message
\* An action is the code from one await of the handler to the next; the
\* handler is a task of the event loop of its worker's process.
At(t, pc) == t \in Tags /\ h[t].pc = pc /\ wpc[h[t].w] = "consuming"

ReportsErrorNever(task_id) == FALSE

\* Line 238: the error status is published only when task_id was assigned.
ReportsError(task_id) == task_id # Unbound

CaughtReraises(t, e) ==
    [h EXCEPT ![t].exc = e, ![t].escaped = TRUE,
              ![t].pc = IF ReportsError(h[t].task_id) THEN "except" ELSE "exit"]

\* Lines 233-239: an exception raised in the try block is caught; the
\* handler publishes the error status, or has nothing more to do.
Caught(t, e) ==
    [h EXCEPT ![t].exc = e,
              ![t].pc = IF ReportsError(h[t].task_id) THEN "except" ELSE "exit"]

\* json.loads(message.body.decode()): [ok, exc].
JsonLoads(body) ==
    IF body.json = "invalid" THEN [ok |-> FALSE, exc |-> "JSONDecodeError"]
    ELSE [ok |-> TRUE, exc |-> ""]

\* task.get(...) on the decoded body: only a dict has get().
IsDict(body) == body.json = "object"

ExtractIgnoresHeaders(headers, t) == <<"fresh", t>>

\* propagate.extract(headers_dict): the remote trace, or a fresh root one.
Extract(headers, t) == IF headers = NoHeaders THEN <<"fresh", t>> ELSE <<headers, 0>>

AfterReceivedSkipFirst(task_type) ==
    IF task_type # ANALYZE THEN "skipped" ELSE "status_processing"

\* Lines 173-179: the 'processing' status is published before the type of
\* the task is looked at.
AfterReceived(task_type) == "status_processing"

\* Lines 149-176: enter message.process(), extract the trace context, decode
\* the body, read taskId and type and call the status reporter.
Received(t) ==
    /\ At(t, "received")
    /\ LET body == h[t].msg.body
           ctx == Extract(h[t].msg.headers, t)
           task == JsonLoads(body)
       IN h' = IF ~task.ok
                 THEN [Caught(t, task.exc) EXCEPT ![t].trace = ctx]
               ELSE IF ~IsDict(body)
                 THEN [Caught(t, "AttributeError") EXCEPT ![t].trace = ctx]
               ELSE [h EXCEPT ![t].trace = ctx,
                              ![t].task_id = DictGet(body.fields, "taskId", JNull),
                              ![t].task_type = DictGet(body.fields, "type", JNull),
                              ![t].pc = AfterReceived(DictGet(body.fields, "type", JNull))]
    /\ UNCHANGED <<wpc, exitCode, prefetch, declared, tasksQ, enqueued>>

IsSkippedInverted(task_type) == task_type = ANALYZE

\* Line 179: only 'analyze' tasks are processed.
IsSkipped(task_type) == task_type # ANALYZE

AfterProcessTaskRaises(result) == IF result.t = "error" THEN "except" ELSE "publish_result"

\* Lines 189-198: an error descriptor returned by process_task only marks
\* the span; the result is published either way.
AfterProcessTask(result) == "publish_result"

\* Lines 176-218: the 'processing' status publish has ended; a task that is
\* not skipped is processed (process_task does not await) and its result
\* handed to the broker.
StatusProcessing(t) ==
    /\ At(t, "status_processing")
    /\ \E ok \in BOOLEAN :
         h' = Publish(t, StatusMessage(t, "processing", "", ok),
                IF StatusReporterOutcome(ok) = "raised"
                  THEN Caught(t, "status publish failed")
                ELSE IF IsSkipped(h[t].task_type)
                  THEN [h EXCEPT ![t].pc = "skipped"]
                ELSE LET result == process_task(h[t].msg.body.fields)
                     IN IF AfterProcessTask(result) = "except"
                          THEN [Caught(t, "processing failed") EXCEPT ![t].result = result]
                        ELSE [h EXCEPT ![t].result = result, ![t].pc = "publish_result"])
    /\ UNCHANGED <<wpc, exitCode, prefetch, declared, tasksQ, enqueued>>

\* Lines 180-184: the 'skipped' status publish has ended; return.
Skipped(t) ==
    /\ At(t, "skipped")
    /\ \E ok \in BOOLEAN :
         h' = Publish(t, StatusMessage(t, "skipped", "not an analyze task", ok),
                IF StatusReporterOutcome(ok) = "raised"
                  THEN Caught(t, "status publish failed")
                ELSE [h EXCEPT ![t].pc = "exit"])
    /\ UNCHANGED <<wpc, exitCode, prefetch, declared, tasksQ, enqueued>>

AfterResultPublishRaises(ok) == "except"

\* Lines 218-231: a failed publish raises; nothing that follows a publish
\* the broker took (print, set_status, add_event) does.
AfterResultPublish(ok) == IF ok THEN "exit" ELSE "except"

\* Lines 218-231: the result publish has ended.
PublishResult(t) ==
    /\ At(t, "publish_result")
    /\ \E ok \in BOOLEAN :
         h' = Publish(t, ResultMessage(t, ok),
                IF AfterResultPublish(ok) = "exit" THEN [h EXCEPT ![t].pc = "exit"]
                ELSE Caught(t, "result publish failed"))
    /\ UNCHANGED <<wpc, exitCode, prefetch, declared, tasksQ, enqueued>>

\* Line 239: the 'error' status publish of the exception handler has ended.
\* An exception raised here is not caught again: it leaves on_message.
Errored(t) ==
    /\ At(t, "except")
    /\ \E ok \in BOOLEAN :
         h' = Publish(t, StatusMessage(t, "error", h[t].exc, ok),
                [h EXCEPT ![t].pc = "exit",
                          ![t].escaped = (h[t].escaped
                                          \/ StatusReporterOutcome(ok) = "raised")])
    /\ UNCHANGED <<wpc, exitCode, prefetch, declared, tasksQ, enqueued>>

ProcessExitLeavesUnsettled(escaped) == "none"

\* message.process().__aexit__: acknowledge when the block ended normally,
\* reject without requeue when an exception left it.
ProcessExit(escaped) == IF escaped THEN "reject" ELSE "ack"

Acknowledged(t) ==
    /\ At(t, "exit")
    /\ h' = [h EXCEPT ![t].pc = "done", ![t].outcome = ProcessExit(h[t].escaped)]
    /\ UNCHANGED <<wpc, exitCode, prefetch, declared, tasksQ, enqueued>>

\* ------------------------------------------------------------ specification
Startup(w) ==
    \/ ReadUri(w) \/ Connect(w) \/ OpenChannel(w) \/ SetQos(w)
    \/ DeclareTasks(w) \/ DeclareResults(w) \/ DeclareStatus(w) \/ Consume(w)

Handle(t) ==
    \/ Received(t) \/ StatusProcessing(t) \/ Skipped(t)
    \/ PublishResult(t) \/ Errored(t) \/ Acknowledged(t)

Next ==
    \/ \E w \in Workers : Startup(w)
    \/ Enqueue
    \/ \E w \in Workers : Deliver(w)
    \/ \E t \in 1..MaxTasks : Handle(t)

Spec == Init /\ [][Next]_vars

\* Lines 276-277: the process is stopped while it consumes (Ctrl-C, or a
\* kill).  Its handlers take no further step and nothing more reaches the
\* broker from it.
Stop(w) ==
    /\ wpc[w] = "consuming"
    /\ wpc' = [wpc EXCEPT ![w] = "stopped"]
    /\ exitCode' = [exitCode EXCEPT ![w] = 0]
    /\ UNCHANGED <<prefetch, declared, tasksQ, enqueued, h>>

\* The deployment in which one worker came up: the other one has failed at
\* startup.
InitOneWorker ==
    /\ wpc = [w \in Workers |-> IF w = "w1" THEN "start" ELSE "exited"]
    /\ exitCode = [w \in Workers |-> IF w = "w1" THEN -1 ELSE 1]
    /\ prefetch = [w \in Workers |-> 0]
    /\ declared = {}
    /\ tasksQ = <<>>
    /\ enqueued = 0
    /\ h = <<>>

NextStop ==
    \/ Next
    \/ \E w \in Workers : Stop(w)

\* One worker process from its start, which can be stopped at any point of
\* its consuming.
StopSpec == InitOneWorker /\ [][NextStop]_vars

\* ---------------------------------------------------------------- properties
\* Publish calls made for delivery t: status events of one status, results.
Out(t) == h[t].out
Statuses(t, status) ==
    {i \in DOMAIN Out(t) : Out(t)[i].queue = TASK_STATUS_QUEUE /\ Out(t)[i].status = status}
Results(t) == {i \in DOMAIN Out(t) : Out(t)[i].queue = RESULTS_QUEUE}
\* Those the broker took: the messages on the queue.
OnQueue(t, S) == {i \in S : Out(t)[i].ok}

Done(t) == h[t].pc = "done"
Parsed(t) == h[t].task_id # Unbound
\* The id the envelope carries (null when it has none).
IdOf(t) == IF h[t].msg.body.fields.taskId = Absent THEN JNull
           ELSE h[t].msg.body.fields.taskId

\* C1: every delivery handed to on_message ends acknowledged on every path:
\* a handler that has not finished can always take its next step, a handler
\* that has finished has acknowledged its delivery, and no delivery is ever
\* rejected or requeued.
C1_AlwaysAcknowledged ==
    \A t \in Tags :
        /\ h[t].outcome \in {"none", "ack"}
        /\ Done(t) => h[t].outcome = "ack"
        /\ ~Done(t) => (h[t].outcome = "none" /\ ENABLED Handle(t))
        /\ ~h[t].escaped
        /\ \A i \in 1..Len(tasksQ) : tasksQ[i].mid # h[t].msg.mid

\* A delivery whose result publish and error status publish both failed has
\* been acknowledged.
C1_Witness ==
    \E t \in Tags :
        /\ Done(t) /\ h[t].outcome = "ack"
        /\ h[t].exc = "result publish failed"
        /\ \E i \in Statuses(t, "error") : ~Out(t)[i].ok

\* C2 (as claimed): a delivery whose body is not a task envelope is
\* acknowledged, an error status has been emitted for it, and the worker is
\* still consuming.
C2_MalformedReportsError ==
    \A t \in Tags :
        (Done(t) /\ h[t].msg.body.json # "object")
            => /\ h[t].outcome = "ack"
               /\ Statuses(t, "error") # {}
               /\ wpc[h[t].w] = "consuming"

\* C3 (as claimed): no delivered task is acknowledged without a terminal
\* signal (a skipped status or a result message) having been published.
C3_TerminalSignalBeforeAck ==
    \A t \in Tags :
        h[t].outcome = "ack"
            => OnQueue(t, Statuses(t, "skipped")) \cup OnQueue(t, Results(t)) # {}

\* C4 (as claimed): for a handled analyze task exactly one processing status
\* and exactly one result message are on the queues, the status first, both
\* with the task's id.
C4_ExactlyOnePublished ==
    \A t \in Tags :
        (Done(t) /\ h[t].task_type = ANALYZE)
            => /\ Cardinality(OnQueue(t, Statuses(t, "processing"))) = 1
               /\ Cardinality(OnQueue(t, Results(t))) = 1
               /\ \A i \in Statuses(t, "processing"), j \in Results(t) :
                     i < j /\ Out(t)[i].taskId = IdOf(t) /\ Out(t)[j].taskId = IdOf(t)

\* C4 (amended): for a delivered analyze task exactly one publish of a
\* processing status and exactly one publish of a result message are made,
\* the status before the result, both with the task's id as taskId; at most
\* one of each is on its queue, and exactly one of each when neither publish
\* failed.
C4_ExactlyOneAttempted ==
    \A t \in Tags :
        (h[t].task_type = ANALYZE /\ h[t].pc \in {"except", "exit", "done"})
            => /\ Cardinality(Statuses(t, "processing")) = 1
               /\ Cardinality(Results(t)) = 1
               /\ \A i \in Statuses(t, "processing"), j \in Results(t) :
                     i < j /\ Out(t)[i].taskId = IdOf(t) /\ Out(t)[j].taskId = IdOf(t)

\* An analyze task with an id is done, its status and its result on the queues.
C4_Witness ==
    \E t \in Tags :
        /\ Done(t) /\ h[t].task_type = ANALYZE /\ IdOf(t) # JNull
        /\ Cardinality(OnQueue(t, Statuses(t, "processing"))) = 1
        /\ Cardinality(OnQueue(t, Results(t))) = 1

\* C5: for a delivered task whose type is not analyze, the skipped status is
\* emitted exactly once (one call of the status reporter, made before the
\* handler returns), nothing is published to the results queue and the task
\* processor is not invoked.
C5_SkippedOnceNoResult ==
    \A t \in Tags :
        (Parsed(t) /\ h[t].task_type # ANALYZE)
            => /\ Results(t) = {}
               /\ h[t].result = NoResult
               /\ Cardinality(Statuses(t, "skipped")) <= 1
               /\ h[t].pc \in {"exit", "done"}
                    => /\ Cardinality(Statuses(t, "skipped")) = 1
                       /\ \A i \in Statuses(t, "skipped") : Out(t)[i].taskId = IdOf(t)

\* A task of type email has been handled: its skipped status is on the queue.
C5_Witness ==
    \E t \in Tags :
        /\ Done(t) /\ Parsed(t) /\ h[t].msg.body.fields.type = JStr(<<"email">>)
        /\ OnQueue(t, Statuses(t, "skipped")) # {}

Terminal(m) ==
    \/ m.queue = RESULTS_QUEUE
    \/ m.queue = TASK_STATUS_QUEUE /\ m.status \in {"skipped", "error"}

\* C6 (as claimed): every terminal event in the published stream is preceded
\* by a published processing status of the same delivery and taskId.
C6_ProcessingPublishedFirst ==
    \A t \in Tags : \A j \in DOMAIN Out(t) :
        (Out(t)[j].ok /\ Terminal(Out(t)[j]))
            => \E i \in 1..(j - 1) :
                  /\ Out(t)[i].ok
                  /\ Out(t)[i].queue = TASK_STATUS_QUEUE /\ Out(t)[i].status = "processing"
                  /\ Out(t)[i].taskId = Out(t)[j].taskId

\* C6 (amended): the publish of a processing status is attempted before
\* every terminal event of the same delivery and taskId; a terminal event
\* whose processing event is not in the published stream before it is one
\* whose processing publish failed.
C6_ProcessingAttemptedFirst ==
    \A t \in Tags : \A j \in DOMAIN Out(t) :
        Terminal(Out(t)[j])
            => \E i \in 1..(j - 1) :
                  /\ Out(t)[i].queue = TASK_STATUS_QUEUE /\ Out(t)[i].status = "processing"
                  /\ Out(t)[i].taskId = Out(t)[j].taskId

\* A skipped status is on the queue after the published processing status of
\* its delivery.
C6_Witness ==
    \E t \in Tags : \E j \in DOMAIN Out(t) :
        /\ Out(t)[j].ok /\ Out(t)[j].status = "skipped"
        /\ \E i \in 1..(j - 1) : Out(t)[i].ok /\ Out(t)[i].status = "processing"

\* C7: after a failed result publish the handler emits exactly one error
\* status, carrying the failure description and the task's id, before it
\* acknowledges; the delivery is then acknowledged and the task is never
\* back on the tasks queue.
C7_ResultFailureReported ==
    \A t \in Tags :
        (Parsed(t) /\ h[t].exc # "")
            => /\ h[t].pc = "except" => (Statuses(t, "error") = {} /\ h[t].outcome = "none")
               /\ h[t].pc \in {"exit", "done"}
                    => /\ Cardinality(Statuses(t, "error")) = 1
                       /\ \A i \in Statuses(t, "error") :
                             /\ Out(t)[i].extra = h[t].exc /\ Out(t)[i].taskId = IdOf(t)
                             /\ \E j \in Results(t) : j < i /\ ~Out(t)[j].ok
               /\ Done(t) => h[t].outcome = "ack"
               /\ \A i \in 1..Len(tasksQ) : tasksQ[i].mid # h[t].msg.mid

\* A delivery whose result publish failed is acknowledged, its error status
\* on the queue.
C7_Witness ==
    \E t \in Tags :
        /\ Done(t) /\ h[t].outcome = "ack" /\ h[t].exc = "result publish failed"
        /\ OnQueue(t, Statuses(t, "error")) # {}

\* The step the handler takes after a status publish that succeeded.
StepAfterStatus(r) ==
    IF r.pc = "status_processing"
    THEN (IF r.task_type # ANALYZE THEN "skipped" ELSE "publish_result")
    ELSE "exit"

\* C8: publish_task_status never raises: when a status publish fails the
\* handler goes on to the step it takes after a successful one, with no
\* exception pending, and the worker keeps consuming.
C8_StatusFailureSwallowed ==
    [][\A t \in Tags :
          (/\ h[t].pc \in {"status_processing", "skipped", "except"}
           /\ h'[t].pc # h[t].pc
           /\ ~h'[t].out[Len(h'[t].out)].ok)
              => /\ h'[t].pc = StepAfterStatus(h[t])
                 /\ h'[t].exc = h[t].exc
                 /\ ~h'[t].escaped
                 /\ wpc'[h[t].w] = "consuming"]_vars

\* The processing status publish of a delivery failed and its handler is at
\* the step that follows.
C8_Witness ==
    \E t \in Tags :
        /\ \E i \in Statuses(t, "processing") : ~Out(t)[i].ok
        /\ h[t].pc \in {"skipped", "publish_result"}
        /\ h[t].exc = ""

ErrorDescriptor(t) == h[t].result.t = "error"

\* C9 (as claimed): when the task processor returned an error descriptor,
\* the result message with that descriptor is published, no error status is
\* emitted for the delivery, and the delivery is acknowledged.
C9_ProcessingErrorIsResult ==
    \A t \in Tags :
        (Done(t) /\ ErrorDescriptor(t))
            => /\ \E j \in OnQueue(t, Results(t)) :
                     Out(t)[j].result = process_task(h[t].msg.body.fields)
               /\ Statuses(t, "error") = {}
               /\ h[t].outcome = "ack"

\* C9 (amended): when the task processor returned an error descriptor, the
\* handler makes one publish of a result message whose result is that
\* descriptor (error message and kind); unless that publish fails, the
\* message is on the results queue and no error status is emitted for the
\* delivery; the delivery is acknowledged.
C9_ProcessingErrorIsResultUnlessPublishFails ==
    \A t \in Tags :
        ErrorDescriptor(t)
            => /\ h[t].pc \in {"publish_result", "except", "exit", "done"}
               /\ h[t].pc # "publish_result"
                    => /\ Cardinality(Results(t)) = 1
                       /\ \A j \in Results(t) :
                             /\ Out(t)[j].result = process_task(h[t].msg.body.fields)
                             /\ Out(t)[j].result.error_type = "AttributeError"
                             /\ Out(t)[j].ok => Statuses(t, "error") = {}
               /\ Done(t) => h[t].outcome = "ack"

\* An analyze task with a non-string payload is done: the error descriptor is
\* on the results queue and no error status was emitted.
C9_Witness ==
    \E t \in Tags :
        /\ Done(t) /\ ErrorDescriptor(t) /\ h[t].msg.body.fields.data.t = "num"
        /\ OnQueue(t, Results(t)) # {}
        /\ Statuses(t, "error") = {}

\* Handlers of worker w that have not settled their delivery.
Active(w) == {t \in Tags : h[t].w = w /\ ~Done(t)}

\* C10: a worker sets its prefetch limit before it starts consuming; every
\* worker has at most one on_message invocation whose delivery is
\* unacknowledged; and no message is being handled by two invocations, of
\* one worker or of two.
C10_OneInFlightPerWorker ==
    /\ \A w \in Workers :
          /\ wpc[w] \in {"consume", "consuming"} => prefetch[w] = PrefetchCount
          /\ Cardinality(Active(w)) <= 1
          /\ Cardinality(Unacked(w)) <= 1
    /\ \A t1, t2 \in Tags :
          (t1 # t2 /\ ~Done(t1) /\ ~Done(t2)) => h[t1].msg.mid # h[t2].msg.mid

\* A worker whose prefetch limit is 1 holds one delivery while a message
\* waits on the tasks queue.
C10_Witness ==
    \E w \in Workers :
        /\ Cardinality(Unacked(w)) = 1
        /\ tasksQ # <<>>
        /\ prefetch[w] = 1

StageOf(pc) ==
    CASE pc = "start" -> 0 [] pc = "connect" -> 1 [] pc = "channel" -> 2
      [] pc = "qos" -> 3 [] pc = "declare_tasks" -> 4 [] pc = "declare_results" -> 5
      [] pc = "declare_status" -> 6 [] pc = "consume" -> 7 [] pc = "consuming" -> 8
      [] OTHER -> -1

\* C11: once a worker consumes, no step ends its process or keeps it from
\* later deliveries: a consuming worker is consuming after every step and
\* has no exit status, a process exits only from a startup step, and when
\* the handling of a delivery ends, whatever failed in it, the delivery is
\* settled and its worker consumes with credit for the next message.
C11_HandlingFailuresNotFatal ==
    [][/\ \A w \in Workers :
             /\ wpc[w] = "consuming" => (wpc'[w] = "consuming" /\ exitCode'[w] = -1)
             /\ (wpc[w] # "exited" /\ wpc'[w] = "exited") => StageOf(wpc[w]) \in 0..7
             /\ exitCode'[w] # -1 => wpc'[w] = "exited"
        /\ \A t \in Tags :
             (~Done(t) /\ h'[t].pc = "done")
                => /\ wpc'[h[t].w] = "consuming"
                   /\ h'[t].outcome # "none"
                   /\ HasCredit(h[t].w)']_vars

\* A worker whose first delivery had its result publish and its error status
\* publish fail, and whose second one was malformed, has finished both and
\* is consuming.
C11_Witness ==
    \E t1, t2 \in Tags :
        /\ t1 < t2 /\ h[t1].w = h[t2].w
        /\ Done(t1) /\ h[t1].exc = "result publish failed"
        /\ \E i \in Statuses(t1, "error") : ~Out(t1)[i].ok
        /\ Done(t2) /\ h[t2].exc = "JSONDecodeError"
        /\ wpc[h[t1].w] = "consuming"

\* C12: a process that has exited in startup (no URI, no connection, a
\* rejected declaration) has a non-zero exit status and was never handed a
\* delivery, so it has consumed and published nothing; a process reaches a
\* declaration only with the prefetch limit set and the earlier queues
\* declared, and consumes only with the limit set and all three queues
\* declared.
C12_StartupFailureExitsBeforeConsuming ==
    \A w \in Workers :
        /\ wpc[w] = "exited"
              => /\ exitCode[w] \notin {-1, 0}
                 /\ \A t \in Tags : h[t].w # w
        /\ StageOf(wpc[w]) >= 0 => exitCode[w] = -1
        /\ StageOf(wpc[w]) >= 4 => prefetch[w] = PrefetchCount
        /\ StageOf(wpc[w]) >= 5 => TASKS_QUEUE \in declared
        /\ StageOf(wpc[w]) >= 6 => RESULTS_QUEUE \in declared
        /\ StageOf(wpc[w]) >= 7 => TASK_STATUS_QUEUE \in declared
        /\ (\E t \in Tags : h[t].w = w)
              => /\ prefetch[w] = PrefetchCount
                 /\ {TASKS_QUEUE, RESULTS_QUEUE, TASK_STATUS_QUEUE} \subseteq declared

\* The worker that came up declared the tasks queue, had a later declaration
\* rejected and exited with status 1 while a message waited on the tasks
\* queue.
C12_Witness ==
    /\ \A w \in Workers : wpc[w] = "exited" /\ exitCode[w] = 1
    /\ TASKS_QUEUE \in declared /\ TASK_STATUS_QUEUE \notin declared
    /\ tasksQ # <<>>
    /\ h = <<>>

\* The trace id a message on a queue carries in its headers.
TraceId(m) == m.trace[1]

Content(m) ==
    [queue |-> m.queue, taskId |-> m.taskId, status |-> m.status,
     worker |-> m.worker, result |-> m.result, extra |-> m.extra]
Min(a, b) == IF a <= b THEN a ELSE b
\* The broker answered the first n publishes of t1 and of t2 alike.
SameBroker(t1, t2, n) == \A j \in 1..n : Out(t1)[j].ok = Out(t2)[j].ok

DataOf(t) == DictGet(h[t].msg.body.fields, "data", JStr(<<>>))

\* C15 (as claimed): processing the payload "x\ny\n\nz" yields the single
\* column `values` with the rows x, y, z, and the line-per-value fallback is
\* the result exactly when the delimited-text parse and the
\* array-of-records parse of the payload both fail.
C15_FallbackExample ==
    \A t \in Tags :
        h[t].result.t # "none"
            => /\ DataOf(t) = CsvText
                    => h[t].result = DataFrame(<<<<"v", "a", "l", "u", "e", "s">>>>,
                                               <<<<"x">>, <<"y">>, <<"z">>>>)
               /\ (h[t].result = LinesFrame(DataOf(t)))
                    <=> (ReadCsv(DataOf(t)).t = "error" /\ JsonFrame(DataOf(t)).t = "error")

\* The shape of the publishes of a handler so far: the processing status
\* first, the skipped status or the result second, an error status third.
PublishOrder(t) ==
    \A i \in DOMAIN Out(t) :
        LET m == Out(t)[i]
        IN /\ (m.queue = TASK_STATUS_QUEUE /\ m.status = "processing") <=> i = 1
           /\ (m.queue = RESULTS_QUEUE \/ m.status = "skipped") <=> i = 2
           /\ (m.queue = TASK_STATUS_QUEUE /\ m.status = "error") <=> i = 3
\* Every publish of the path the handler took has been attempted.
PublishesComplete(t) ==
    IF ~Parsed(t) THEN Out(t) = <<>>
    ELSE /\ Len(Out(t)) \in {2, 3}
         /\ Len(Out(t)) = 3 <=> (Out(t)[2].queue = RESULTS_QUEUE /\ ~Out(t)[2].ok)

\* C16: the acknowledgment is the last broker operation of a delivery's
\* handling: a delivery is settled only by a handler that has finished, with
\* every publish of its path attempted in order before, and the delivery of
\* a handler that has not finished (its worker stopped or not) is
\* unacknowledged at the broker.
C16_AcknowledgedLast ==
    \A t \in Tags :
        /\ PublishOrder(t)
        /\ ~Done(t) => h[t].outcome = "none"
        /\ h[t].outcome # "none" => (Done(t) /\ PublishesComplete(t))
        /\ (wpc[h[t].w] = "stopped" /\ ~Done(t)) => t \in Unacked(h[t].w)

\* A worker was stopped after the last publish of a delivery and before its
\* acknowledgment: the delivery is unacknowledged.
C16_Witness ==
    \E t \in Tags :
        /\ wpc[h[t].w] = "stopped"
        /\ h[t].pc = "exit" /\ Len(Out(t)) = 3
        /\ h[t].outcome = "none"

\* Terminal signals of delivery t that are on a queue.
TerminalOnQueue(t) ==
    OnQueue(t, Statuses(t, "skipped")) \cup OnQueue(t, Statuses(t, "error"))
        \cup OnQueue(t, Results(t))

\* C17: for each delivery at most one terminal signal (skipped status, error
\* status, result message) is on a queue, and no error status is emitted
\* after a result or a skipped status of the delivery that the broker took.
C17_AtMostOneTerminalPublished ==
    \A t \in Tags :
        /\ Cardinality(TerminalOnQueue(t)) <= 1
        /\ \A i, j \in DOMAIN Out(t) :
              (i < j /\ Out(t)[i].ok
                 /\ (Out(t)[i].queue = RESULTS_QUEUE \/ Out(t)[i].status = "skipped"))
                  => Out(t)[j].status # "error"

\* The result publish of a delivery failed and its error status is on the
\* queue: the one terminal signal of the delivery.
C17_Witness ==
    \E t \in Tags :
        /\ Done(t)
        /\ Results(t) # {} /\ OnQueue(t, Results(t)) = {}
        /\ OnQueue(t, Statuses(t, "error")) # {}
        /\ Cardinality(TerminalOnQueue(t)) = 1

====
